---- MODULE Spec2Model ----
(***************************************************************************)
(* CBZ to PDF converter: the natural filename sorter (_natural_key), the   *)
(* per-archive conversion (cbz_to_pdf, process_image_gpu) and the driver   *)
(* (main), for both variants of the script: the batch variant              *)
(* (src/CBZtoPDF.py, "cpu") and the GPU variant (src/unnamed/part_000,     *)
(* "gpu").                                                                 *)
(*                                                                         *)
(* A file name is a sequence of one-character strings.  Characters are     *)
(* ordered by their code points (AsciiOrder).                              *)
(***************************************************************************)
EXTENDS Integers, Sequences, FiniteSets, TLC

\* ---------------------------------------------------------------- bounds
\* Entries of an archive when the directory holds at most one archive
MaxEntries == 3
\* Entries of an archive when the directory holds several archives
MaxEntriesMany == 1
\* Largest configured batch size
MaxBatch == 3
\* Archives in the source directory
MaxArchives == 2
\* Digits of a digit run in the names given to the sorter
MaxDigits == 2

\* ------------------------------------------------------------ characters
AsciiOrder ==
  << ".",
     "0", "1", "2", "3", "4", "5", "6", "7", "8", "9",
     "A", "B", "C", "D", "E", "F", "G", "H", "I", "J", "K", "L", "M",
     "N", "O", "P", "Q", "R", "S", "T", "U", "V", "W", "X", "Y", "Z",
     "a", "b", "c", "d", "e", "f", "g", "h", "i", "j", "k", "l", "m",
     "n", "o", "p", "q", "r", "s", "t", "u", "v", "w", "x", "y", "z" >>

Chars == { AsciiOrder[k] : k \in 1..Len(AsciiOrder) }

Ord == [ c \in Chars |-> CHOOSE k \in 1..Len(AsciiOrder) : AsciiOrder[k] = c ]

DigitChars == { "0", "1", "2", "3", "4", "5", "6", "7", "8", "9" }

UpperChars == { c \in Chars : Ord[c] >= Ord["A"] /\ Ord[c] <= Ord["Z"] }

LowerChars == { c \in Chars : Ord[c] >= Ord["a"] /\ Ord[c] <= Ord["z"] }

\* str.lower() on one character
lower_char(c) == IF c \in UpperChars THEN AsciiOrder[Ord[c] + (Ord["a"] - Ord["A"])] ELSE c

\* str.upper() on one character
upper_char(c) == IF c \in LowerChars THEN AsciiOrder[Ord[c] - (Ord["a"] - Ord["A"])] ELSE c

\* str.lower()
lower(s) == [ k \in 1..Len(s) |-> lower_char(s[k]) ]

upper(s) == [ k \in 1..Len(s) |-> upper_char(s[k]) ]

\* str.isdigit(): non-empty and all characters are digits
isdigit(s) == s # << >> /\ \A k \in 1..Len(s) : s[k] \in DigitChars

\* int(tok) for a run of decimal digits (Python integers are unbounded)
RECURSIVE int(_)
int(s) == IF s = << >> THEN 0
          ELSE 10 * int(SubSeq(s, 1, Len(s) - 1)) + (Ord[s[Len(s)]] - Ord["0"])

\* str < str: lexicographic by code point
RECURSIVE str_less(_, _)
str_less(a, b) ==
  IF b = << >> THEN FALSE
  ELSE IF a = << >> THEN TRUE
  ELSE IF Head(a) = Head(b) THEN str_less(Tail(a), Tail(b))
  ELSE Ord[Head(a)] < Ord[Head(b)]

\* str.endswith(suffix)
endswith(s, suffix) ==
  /\ Len(suffix) <= Len(s)
  /\ SubSeq(s, Len(s) - Len(suffix) + 1, Len(s)) = suffix

\* --------------------------------------------------- natural sort key
\* re.split(r"(\d+)", text): the runs of text, alternately a non-digit run
\* (possibly empty) and a digit run, beginning and ending with a non-digit run.
RECURSIVE re_split(_)
re_split(text) ==
  IF \A k \in 1..Len(text) : text[k] \notin DigitChars THEN << text >>
  ELSE LET s == CHOOSE k \in 1..Len(text) :
                  /\ text[k] \in DigitChars
                  /\ \A m \in 1..(k - 1) : text[m] \notin DigitChars
           e == CHOOSE k \in s..Len(text) :
                  /\ \A m \in s..k : text[m] \in DigitChars
                  /\ (k = Len(text) \/ text[k + 1] \notin DigitChars)
       IN  << SubSeq(text, 1, s - 1), SubSeq(text, s, e) >>
             \o re_split(SubSeq(text, e + 1, Len(text)))

\* The key with digit runs left as text: the order is then character by
\* character.
natural_key_text(text) ==
  LET toks == re_split(text)
  IN  [ k \in 1..Len(toks) |-> [isInt |-> FALSE, int |-> 0, str |-> lower(toks[k])] ]

\* _natural_key: [int(tok) if tok.isdigit() else tok.lower() for tok in split]
_natural_key(text) ==
  LET toks == re_split(text)
  IN  [ k \in 1..Len(toks) |->
          IF isdigit(toks[k])
          THEN [isInt |-> TRUE, int |-> int(toks[k]), str |-> << >>]
          ELSE [isInt |-> FALSE, int |-> 0, str |-> lower(toks[k])] ]

\* Comparison of two key elements.  Elements at the same position of two keys
\* have the same type (even positions are text, odd positions are integers),
\* so the mixed case, a TypeError in Python, does not arise.
elem_less(x, y) ==
  IF x.isInt /\ y.isInt THEN x.int < y.int
  ELSE IF ~x.isInt /\ ~y.isInt THEN str_less(x.str, y.str)
  ELSE FALSE

\* list < list: the first differing element decides, a proper prefix is less
RECURSIVE key_less(_, _)
key_less(a, b) ==
  IF b = << >> THEN FALSE
  ELSE IF a = << >> THEN TRUE
  ELSE IF Head(a) = Head(b) THEN key_less(Tail(a), Tail(b))
  ELSE elem_less(Head(a), Head(b))

\* Insert x after every element whose key is not greater (a stable sort).
RECURSIVE insert_sorted(_, _)
insert_sorted(s, x) ==
  IF s = << >> THEN << x >>
  ELSE IF key_less(_natural_key(x), _natural_key(Head(s))) THEN << x >> \o s
  ELSE << Head(s) >> \o insert_sorted(Tail(s), x)

\* The sort left out: the names stay in the order given.
sort_none(names) == names

\* sorted(names, key=_natural_key) / names.sort(key=_natural_key)
RECURSIVE sort_natural(_)
sort_natural(names) ==
  IF names = << >> THEN << >>
  ELSE insert_sorted(sort_natural(SubSeq(names, 1, Len(names) - 1)), names[Len(names)])

\* ------------------------------------------------------ the file system
\* Names of entries an archive may hold: images whose natural order
\* (p2.png and P2.PNG, then p10.jpg) differs from their code-point order
\* (P2.PNG, p10.jpg, p2.png), two of them with the same key, and one entry
\* that is not an image.
EntryNames ==
  { << "p", "2", ".", "p", "n", "g" >>,
    << "P", "2", ".", "P", "N", "G" >>,
    << "p", "1", "0", ".", "j", "p", "g" >>,
    << "i", "n", "f", "o", ".", "t", "x", "t" >> }

\* Names of the .cbz files the source directory may hold.
ArchiveNames ==
  { << "c", "h", "2", ".", "c", "b", "z" >>,
    << "c", "h", "1", "0", ".", "c", "b", "z" >>,
    << "C", "h", "1", ".", "c", "b", "z" >> }

\* Sequences without repetition of at most n elements of S
Arrangements(S, n) ==
  { s \in UNION { [1..m -> S] : m \in 0..n } :
      \A a, b \in 1..Len(s) : a # b => s[a] # s[b] }

Range(s) == { s[k] : k \in 1..Len(s) }

\* The recognized image extensions of cbz_to_pdf
IMAGE_EXTS ==
  { << ".", "p", "n", "g" >>, << ".", "j", "p", "g" >>, << ".", "j", "p", "e", "g" >>,
    << ".", "b", "m", "p" >>, << ".", "g", "i", "f" >>, << ".", "t", "i", "f" >>,
    << ".", "t", "i", "f", "f" >>, << ".", "w", "e", "b", "p" >> }

\* n.lower().endswith((".png", ".jpg", ...))
is_image(n) == \E ext \in IMAGE_EXTS : endswith(lower(n), ext)

\* [n for n in zf.namelist() if n.lower().endswith(...)]
RECURSIVE image_entries(_)
image_entries(names) ==
  IF names = << >> THEN << >>
  ELSE (IF is_image(Head(names)) THEN << Head(names) >> ELSE << >>)
         \o image_entries(Tail(names))

\* Path.stem: the name up to its last dot
stem(name) ==
  LET dots == { k \in 1..Len(name) : name[k] = "." }
  IN  IF dots = { } THEN name
      ELSE SubSeq(name, 1, (CHOOSE k \in dots : \A m \in dots : m <= k) - 1)

\* seq[i:i + n] for a 0-based offset i
slice(seq, i, n) ==
  [ k \in 1..(IF i + n < Len(seq) THEN n ELSE Len(seq) - i) |-> seq[i + k] ]

\* list.extend
extend(pages, more) == pages \o more

\* ------------------------------------------------------------- state
VARIABLES
  variant,        \* "cpu": src/CBZtoPDF.py, "gpu": src/unnamed/part_000
  device,         \* device.type: "cuda" or "cpu"
  BATCH_SIZE,     \* the configured batch size
  dirExists,      \* source_dir.is_dir()
  listing,        \* source_dir.glob("*.cbz"), in the order the file system gives
  pc,             \* position of the program
  status,         \* how the run stands: running, finished, fatal, error, interrupted, crashed
  cbz_files,      \* main: the sorted list of archives
  idx,            \* main: 1-based position of the loop in cbz_files
  entries,        \* cbz_to_pdf: zf.namelist()
  corrupt,        \* the entries of the open archive whose data do not decode
  images,         \* cbz_to_pdf: the sorted qualifying entry names
  i,              \* cbz_to_pdf: offset of the current batch
  batch,          \* cbz_to_pdf: images[i:i + BATCH_SIZE]
  j,              \* cbz_to_pdf: 1-based position of the inner loop in batch
  batch_pages,    \* cbz_to_pdf: batch_pages / batch_processed
  all_pages,      \* cbz_to_pdf: all_pages / processed_images
  docs,           \* destination directory: stem -> output document
  outcome,        \* the logged outcome of each archive
  started,        \* the archives cbz_to_pdf was called for, in order
  visited,        \* the entries the inner loop body ran for, in order
  failures,       \* per entry, how many times decoding it raised
  batchLens,      \* the length of each batch processed
  collected,      \* the entries whose decoded image was collected
  closed,         \* the entries whose decoded image was closed
  saveAttempted,  \* the save of the current archive's document was called
  opened,         \* zipfile.ZipFile opened the current archive
  interrupted,    \* a KeyboardInterrupt was delivered
  pair,           \* sorter: two file names and their digit runs
  pairSorted      \* sorter: sorted(pair.names, key=_natural_key)

config == << variant, device, BATCH_SIZE, dirExists, listing >>
locals == << entries, corrupt, images, i, batch, j, batch_pages, all_pages >>
history == << visited, failures, batchLens, collected, closed, saveAttempted, opened >>
sorter == << pair, pairSorted >>
vars == << variant, device, BATCH_SIZE, dirExists, listing, pc, status, cbz_files,
           idx, entries, corrupt, images, i, batch, j, batch_pages, all_pages,
           docs, outcome, started, visited, failures, batchLens, collected,
           closed, saveAttempted, opened, interrupted, pair, pairSorted >>

Stems == { stem(a) : a \in ArchiveNames }

NoDoc == [state |-> "none", pages |-> << >>, writes |-> 0]

\* The decoded images that are referenced and not closed
held == (Range(all_pages) \cup Range(batch_pages)) \ closed

\* The archive being converted
cbz == cbz_files[idx]

\* pdf_path = out_dir / f"{cbz_path.stem}.pdf"
pdf_path == stem(cbz)

InCbzToPdf == pc \in { "open", "image", "fallback", "endbatch", "save", "finally", "ret" }

Init ==
  /\ variant \in { "cpu", "gpu" }
  /\ device \in (IF variant = "gpu" THEN { "cpu", "cuda" } ELSE { "cpu" })
  /\ BATCH_SIZE \in 1..MaxBatch
  /\ dirExists \in BOOLEAN
  /\ listing \in (IF dirExists THEN Arrangements(ArchiveNames, MaxArchives) ELSE { << >> })
  /\ pc = "start"
  /\ status = "running"
  /\ cbz_files = << >>
  /\ idx = 0
  /\ entries = << >>
  /\ corrupt = { }
  /\ images = << >>
  /\ i = 0
  /\ batch = << >>
  /\ j = 0
  /\ batch_pages = << >>
  /\ all_pages = << >>
  /\ docs = [ d \in Stems |-> NoDoc ]
  /\ outcome = [ a \in ArchiveNames |-> "none" ]
  /\ started = << >>
  /\ visited = << >>
  /\ failures = [ n \in EntryNames |-> 0 ]
  /\ batchLens = << >>
  /\ collected = { }
  /\ closed = { }
  /\ saveAttempted = FALSE
  /\ opened = FALSE
  /\ interrupted = FALSE
  /\ pair = << >>
  /\ pairSorted = << >>

\* The frame of cbz_to_pdf is dropped: its locals and the record of the call
ClearCall ==
  /\ entries' = << >>
  /\ corrupt' = { }
  /\ images' = << >>
  /\ i' = 0
  /\ batch' = << >>
  /\ j' = 0
  /\ batch_pages' = << >>
  /\ all_pages' = << >>
  /\ visited' = << >>
  /\ failures' = [ n \in EntryNames |-> 0 ]
  /\ batchLens' = << >>
  /\ collected' = { }
  /\ closed' = { }
  /\ saveAttempted' = FALSE
  /\ opened' = FALSE

\* ------------------------------------------------------------- main
\* main: source_dir.is_dir(), else SystemExit before any archive is processed
CheckSourceDir ==
  /\ pc = "start"
  /\ IF dirExists
     THEN pc' = "list" /\ status' = status
     ELSE pc' = "done" /\ status' = "fatal"
  /\ UNCHANGED << config, cbz_files, idx, locals, docs, outcome, started, history,
                  interrupted, sorter >>

\* main: cbz_files = sorted(source_dir.glob("*.cbz"), key=_natural_key(p.name))
ListArchives ==
  /\ pc = "list"
  /\ cbz_files' = sort_natural(listing)
  /\ idx' = 1
  /\ pc' = "loop"
  /\ UNCHANGED << config, status, locals, docs, outcome, started, history,
                  interrupted, sorter >>

\* main: the head of the for loop; calls cbz_to_pdf or leaves the loop
Loop ==
  /\ pc = "loop"
  /\ IF idx <= Len(cbz_files)
     THEN /\ started' = Append(started, cbz)
          /\ pc' = "open"
          /\ status' = status
     ELSE /\ started' = started
          /\ pc' = "done"
          /\ status' = "finished"
  /\ UNCHANGED << config, cbz_files, idx, locals, docs, outcome, history,
                  interrupted, sorter >>

\* ------------------------------------------------------- cbz_to_pdf
\* An except block that leaves the batch ("break") when an entry fails.
after_entry_break(pos, len, failed) == IF failed THEN len + 1 ELSE pos + 1

\* The position of "for name in batch" after the entry at pos: the except
\* block ends in "continue", so a failed entry moves on like a decoded one
after_entry(pos, len, failed) == pos + 1

\* The inner loop moves to the next entry of the batch, or the batch ends
Advance(failed) ==
  LET nxt == after_entry(j, Len(batch), failed)
  IN  IF nxt <= Len(batch)
      THEN j' = nxt /\ pc' = "image"
      ELSE j' = j /\ pc' = "endbatch"

\* The most entries an archive of this directory holds
EntryLimit == IF Len(listing) > 1 THEN MaxEntriesMany ELSE MaxEntries

\* zipfile.ZipFile(cbz_path), the filter on the extension, the sort, and the
\* head of the batch loop.  The archive may be unreadable (the open raises):
\* the batch variant catches the error in cbz_to_pdf, the GPU variant lets it
\* reach main's "except Exception", which ends the run.
OpenArchive ==
  /\ pc = "open"
  /\ \E readable \in BOOLEAN :
     \E content \in Arrangements(EntryNames, EntryLimit) :
     \E bad \in SUBSET Range(image_entries(content)) :
       IF ~readable
       THEN /\ outcome' = [outcome EXCEPT ![cbz] = "error"]
            /\ IF variant = "cpu"
               THEN pc' = "finally" /\ status' = status
               ELSE pc' = "done" /\ status' = "error"
            /\ UNCHANGED << locals, opened >>
       ELSE LET imgs == sort_natural(image_entries(content)) IN
            /\ entries' = content
            /\ corrupt' = bad
            /\ opened' = TRUE
            /\ status' = status
            /\ IF imgs = << >>
               THEN /\ outcome' = [outcome EXCEPT ![cbz] = "skip"]
                    /\ pc' = IF variant = "cpu" THEN "finally" ELSE "ret"
                    /\ UNCHANGED << images, i, batch, j, batch_pages, all_pages >>
               ELSE /\ outcome' = outcome
                    /\ images' = imgs
                    /\ all_pages' = << >>
                    /\ i' = 0
                    /\ batch' = slice(imgs, 0, BATCH_SIZE)
                    /\ batch_pages' = << >>
                    /\ j' = 1
                    /\ pc' = "image"
  /\ UNCHANGED << config, cbz_files, idx, docs, started, visited, failures, batchLens,
                  collected, closed, saveAttempted, interrupted, sorter >>

\* Batch variant, the body of "for name in batch": Image.open and
\* optimize_image once; a failure is logged and the entry skipped
ProcessImage ==
  /\ pc = "image"
  /\ variant = "cpu"
  /\ LET name == batch[j] IN
     /\ visited' = Append(visited, name)
     /\ IF name \in corrupt
        THEN /\ failures' = [failures EXCEPT ![name] = @ + 1]
             /\ UNCHANGED << batch_pages, collected >>
        ELSE /\ batch_pages' = Append(batch_pages, name)
             /\ collected' = collected \cup { name }
             /\ failures' = failures
     /\ Advance(name \in corrupt)
  /\ UNCHANGED << config, status, cbz_files, idx, entries, corrupt, images, i, batch,
                  all_pages, docs, outcome, started, batchLens, closed, saveAttempted,
                  opened, interrupted, sorter >>

\* GPU variant, the body of "for name in batch" up to the try block of
\* process_image_gpu: Image.open, then the tensor round trip on a cuda device.
\* Any exception of the try block leads to the fallback.
ProcessImageGpu ==
  /\ pc = "image"
  /\ variant = "gpu"
  /\ LET name == batch[j] IN
     /\ visited' = Append(visited, name)
     /\ IF name \in corrupt
        THEN /\ failures' = [failures EXCEPT ![name] = @ + 1]
             /\ pc' = "fallback"
             /\ UNCHANGED << batch_pages, collected, j >>
        ELSE \E gpuFails \in (IF device = "cuda" THEN BOOLEAN ELSE { FALSE }) :
               IF gpuFails
               THEN /\ pc' = "fallback"
                    /\ UNCHANGED << batch_pages, collected, j, failures >>
               ELSE /\ batch_pages' = Append(batch_pages, name)
                    /\ collected' = collected \cup { name }
                    /\ failures' = failures
                    /\ Advance(FALSE)
  /\ UNCHANGED << config, status, cbz_files, idx, entries, corrupt, images, i, batch,
                  all_pages, docs, outcome, started, batchLens, closed, saveAttempted,
                  opened, interrupted, sorter >>

\* GPU variant, the except block of process_image_gpu: Image.open again on the
\* same data; if that raises, cbz_to_pdf logs the entry and skips it
GpuFallback ==
  /\ pc = "fallback"
  /\ LET name == batch[j] IN
     /\ IF name \in corrupt
        THEN /\ failures' = [failures EXCEPT ![name] = @ + 1]
             /\ UNCHANGED << batch_pages, collected >>
        ELSE /\ batch_pages' = Append(batch_pages, name)
             /\ collected' = collected \cup { name }
             /\ failures' = failures
     /\ Advance(name \in corrupt)
  /\ UNCHANGED << config, status, cbz_files, idx, entries, corrupt, images, i, batch,
                  all_pages, docs, outcome, started, visited, batchLens, closed,
                  saveAttempted, opened, interrupted, sorter >>

\* A loop bound that is off by one: a last batch of one entry is not run.
range_continues_late(nxt, len) == nxt + 1 < len

\* range(0, len(images), BATCH_SIZE) has a further value nxt
range_continues(nxt, len) == nxt < len

\* The end of a batch: extend the collected pages, gc.collect(), and the head
\* of the batch loop for the next batch
EndBatch ==
  /\ pc = "endbatch"
  /\ all_pages' = extend(all_pages, batch_pages)
  /\ batchLens' = Append(batchLens, Len(batch))
  /\ IF range_continues(i + BATCH_SIZE, Len(images))
     THEN /\ i' = i + BATCH_SIZE
          /\ batch' = slice(images, i + BATCH_SIZE, BATCH_SIZE)
          /\ batch_pages' = << >>
          /\ j' = 1
          /\ pc' = "image"
     ELSE /\ pc' = "save"
          /\ UNCHANGED << i, batch, batch_pages, j >>
  /\ UNCHANGED << config, status, cbz_files, idx, entries, corrupt, images, docs,
                  outcome, started, visited, failures, collected, closed,
                  saveAttempted, opened, interrupted, sorter >>

\* The check that skips an archive without decoded pages never fires.
no_pages_never(pages) == FALSE

\* "if not all_pages"
no_pages(pages) == pages = << >>

\* After the batch loop: skip when nothing was decoded, else save the document
\* once.  The save may raise; both variants catch and log that.
SavePdf ==
  /\ pc = "save"
  /\ IF no_pages(all_pages)
     THEN /\ outcome' = [outcome EXCEPT ![cbz] = "skip"]
          /\ pc' = IF variant = "cpu" THEN "finally" ELSE "ret"
          /\ UNCHANGED << docs, saveAttempted >>
     ELSE /\ saveAttempted' = TRUE
          /\ pc' = "finally"
          /\ \E saved \in BOOLEAN :
               IF saved
               THEN /\ docs' = [docs EXCEPT ![pdf_path] =
                                  [state |-> "complete", pages |-> all_pages,
                                   writes |-> @.writes + 1]]
                    /\ outcome' = [outcome EXCEPT ![cbz] = "ok"]
               ELSE /\ docs' = docs
                    /\ outcome' = [outcome EXCEPT ![cbz] = "error"]
  /\ UNCHANGED << config, status, cbz_files, idx, locals, started, visited, failures,
                  batchLens, collected, closed, opened, interrupted, sorter >>

\* A clean-up placed after the save instead of in a finally block.
close_on_success(pages, raised) == IF raised THEN { } ELSE Range(pages)

\* The finally block: "for img in all_pages: img.close()"
finally_close(pages, raised) == Range(pages)

\* The finally block of cbz_to_pdf (batch variant: around the whole function;
\* GPU variant: around the save, and it also clears processed_images)
Cleanup ==
  /\ pc = "finally"
  /\ closed' = closed \cup finally_close(all_pages, outcome[cbz] = "error")
  /\ all_pages' = IF variant = "gpu" THEN << >> ELSE all_pages
  /\ pc' = "ret"
  /\ UNCHANGED << config, status, cbz_files, idx, entries, corrupt, images, i, batch,
                  j, batch_pages, docs, outcome, started, visited, failures,
                  batchLens, collected, saveAttempted, opened, interrupted, sorter >>

\* cbz_to_pdf returns to main, which collects garbage and takes the next archive
Return ==
  /\ pc = "ret"
  /\ ClearCall
  /\ idx' = idx + 1
  /\ pc' = "loop"
  /\ UNCHANGED << config, status, cbz_files, docs, outcome, started, interrupted, sorter >>

\* An "except" in cbz_to_pdf that also catches KeyboardInterrupt: the
\* interrupt is swallowed and the function returns normally.
after_interrupt_swallowed(p) ==
  IF p \in { "open", "image", "fallback", "endbatch", "save", "finally", "ret" }
  THEN "ret" ELSE "done"

\* Where a KeyboardInterrupt raised at position p is handled: no handler of
\* cbz_to_pdf catches it ("except Exception" does not), main's
\* "except KeyboardInterrupt" does, and main ends
after_interrupt(p) == "done"

\* A KeyboardInterrupt is delivered inside main's try block.  The finally
\* blocks it unwinds through run; an interrupted save may leave a partial file.
KeyboardInterrupt ==
  /\ ~interrupted
  /\ pc \in { "list", "loop", "open", "image", "fallback", "endbatch", "save",
              "finally", "ret" }
  /\ interrupted' = TRUE
  /\ pc' = after_interrupt(pc)
  /\ IF pc = "save" /\ all_pages # << >>
     THEN \E written \in BOOLEAN :
            docs' = IF written
                    THEN [docs EXCEPT ![pdf_path] =
                            [state |-> "partial", pages |-> << >>, writes |-> @.writes + 1]]
                    ELSE docs
     ELSE docs' = docs
  /\ IF pc' = "done"
     THEN /\ status' = "interrupted"
          /\ ClearCall
     ELSE /\ status' = status
          /\ UNCHANGED << locals, history >>
  /\ UNCHANGED << config, cbz_files, idx, outcome, started, sorter >>

Next ==
  \/ CheckSourceDir
  \/ ListArchives
  \/ Loop
  \/ OpenArchive
  \/ ProcessImage
  \/ ProcessImageGpu
  \/ GpuFallback
  \/ EndBatch
  \/ SavePdf
  \/ Cleanup
  \/ Return
  \/ KeyboardInterrupt

Spec == Init /\ [][Next]_vars

\* ------------------------------------------------- the sorter alone
\* Pairs of file names built from one template: a prefix that does not end
\* in a digit, a run of digits, a suffix that does not begin with a digit.
\* The two names differ in the digit run and, possibly, in letter case.
SortDigits == { "0", "1", "9" }

DigitRuns == UNION { [1..n -> SortDigits] : n \in 1..MaxDigits }

Prefixes == { << >>, << "p" >>, << "c", "h" >>, << "v", "1", "." >> }

Suffixes == { << >>, << ".", "p", "n", "g" >>, << "b" >> }

Cased(up, s) == IF up THEN upper(s) ELSE s

Pairs ==
  { [names |-> << Cased(ua, pre) \o da \o Cased(ua, suf),
                  Cased(ub, pre) \o db \o Cased(ub, suf) >>,
     runs  |-> << da, db >>] :
      pre \in Prefixes, suf \in Suffixes, da \in DigitRuns, db \in DigitRuns,
      ua \in BOOLEAN, ub \in BOOLEAN }

InitSort ==
  /\ variant = "cpu"
  /\ device = "cpu"
  /\ BATCH_SIZE = 1
  /\ dirExists = FALSE
  /\ listing = << >>
  /\ pc = "sort"
  /\ status = "running"
  /\ cbz_files = << >>
  /\ idx = 0
  /\ entries = << >>
  /\ corrupt = { }
  /\ images = << >>
  /\ i = 0
  /\ batch = << >>
  /\ j = 0
  /\ batch_pages = << >>
  /\ all_pages = << >>
  /\ docs = [ d \in Stems |-> NoDoc ]
  /\ outcome = [ a \in ArchiveNames |-> "none" ]
  /\ started = << >>
  /\ visited = << >>
  /\ failures = [ n \in EntryNames |-> 0 ]
  /\ batchLens = << >>
  /\ collected = { }
  /\ closed = { }
  /\ saveAttempted = FALSE
  /\ opened = FALSE
  /\ interrupted = FALSE
  /\ pair \in Pairs
  /\ pairSorted = << >>

\* sorted(names, key=_natural_key) on the two names
SortPair ==
  /\ pc = "sort"
  /\ pairSorted' = sort_natural(pair.names)
  /\ pc' = "sorted"
  /\ UNCHANGED << config, status, cbz_files, idx, locals, docs, outcome, started,
                  history, interrupted, pair >>

NextSort == SortPair

SpecSort == InitSort /\ [][NextSort]_vars

\* ---------------------------------------------------------- claims
\* The qualifying entries of the open archive, by the extension rule
Qualifying == { n \in Range(entries) : is_image(n) }

\* p is in non-decreasing order of _natural_key
NaturallyOrdered(p) ==
  \A a, b \in 1..Len(p) :
    a < b => ~key_less(_natural_key(p[b]), _natural_key(p[a]))

\* p holds each element of S once
Enumerates(p, S) == Range(p) = S /\ Len(p) = Cardinality(S)

\* The entries of s that decode, in the order of s
RECURSIVE Decodable(_)
Decodable(s) ==
  IF s = << >> THEN << >>
  ELSE (IF Head(s) \in corrupt THEN << >> ELSE << Head(s) >>) \o Decodable(Tail(s))

\* C1: when cbz_to_pdf has run to its end on an archive with N > 0 qualifying
\* entries that all decode, and the save did not raise, the archive's document
\* was written exactly once, and its pages are the N qualifying entries, each
\* once, in non-decreasing order of _natural_key, whatever the order of the
\* entries in the archive and whatever the batch size.
C1_PagesInNaturalOrder ==
  (pc = "ret" /\ opened /\ Qualifying # { } /\ corrupt = { } /\ outcome[cbz] # "error")
    => /\ docs[pdf_path].state = "complete"
       /\ docs[pdf_path].writes = 1
       /\ outcome[cbz] = "ok"
       /\ Enumerates(docs[pdf_path].pages, Qualifying)
       /\ NaturallyOrdered(docs[pdf_path].pages)

\* C1 witness: three images stored out of order and converted in more than one
\* batch give a three-page document
C1_Witness ==
  /\ pc = "ret" /\ opened /\ corrupt = { }
  /\ Cardinality(Qualifying) = 3
  /\ ~NaturallyOrdered(image_entries(entries))
  /\ Len(batchLens) > 1
  /\ docs[pdf_path].state = "complete"
  /\ Len(docs[pdf_path].pages) = 3

\* C2: a document holds at least one page, and when cbz_to_pdf has run to its
\* end on a readable archive with no qualifying entry, or whose qualifying
\* entries all fail to decode, no save was attempted, no document exists for
\* the archive, and the logged outcome is a skip.
C2_NoDocumentWithoutPages ==
  /\ \A d \in Stems : docs[d].state = "complete" => docs[d].pages # << >>
  /\ (pc = "ret" /\ opened /\ Qualifying \subseteq corrupt)
       => /\ ~saveAttempted
          /\ docs[pdf_path] = NoDoc
          /\ outcome[cbz] = "skip"

\* C2 witness: an archive whose two qualifying entries (one with an upper-case
\* extension) both fail to decode is skipped
C2_Witness ==
  /\ pc = "ret" /\ opened
  /\ Cardinality(Qualifying) >= 2
  /\ Qualifying \subseteq corrupt
  /\ Len(visited) >= 2
  /\ outcome[cbz] = "skip"

\* C3: when exactly one qualifying entry fails to decode, every qualifying
\* entry was still visited once the batch loop ends, that entry alone failed
\* and every other one was decoded and collected, and the document, written
\* whenever another entry remains and the save does not raise, has the N - 1
\* other entries as its pages, in natural order.
C3_OneFailureSkipsOnlyThatEntry ==
  (pc \in { "save", "finally", "ret" } /\ opened /\ Cardinality(corrupt) = 1)
    => /\ Enumerates(visited, Qualifying)
       /\ NaturallyOrdered(visited)
       /\ \A n \in corrupt : failures[n] >= 1
       /\ \A n \in Qualifying \ corrupt : failures[n] = 0 /\ n \in collected
       /\ docs[pdf_path].state = "complete"
            => /\ Enumerates(docs[pdf_path].pages, Qualifying \ corrupt)
               /\ Len(docs[pdf_path].pages) = Cardinality(Qualifying) - 1
               /\ NaturallyOrdered(docs[pdf_path].pages)
       /\ (pc = "ret" /\ Cardinality(Qualifying) >= 2 /\ outcome[cbz] # "error")
            => docs[pdf_path].state = "complete"

\* C3 witness: the first of three entries fails in a batch it shares with a
\* second entry; the document has the two others
C3_Witness ==
  /\ pc = "ret" /\ opened
  /\ Cardinality(Qualifying) = 3
  /\ corrupt = { images[1] }
  /\ BATCH_SIZE = 2
  /\ docs[pdf_path].state = "complete"
  /\ docs[pdf_path].pages = << images[2], images[3] >>

\* C4: of two names that differ in one run of digits (and possibly in letter
\* case), sorting with _natural_key puts first the name whose run is the
\* smaller integer, whichever of the two comes first in the input.
C4_SmallerIntegerFirst ==
  pc = "sorted"
    => /\ int(pair.runs[1]) < int(pair.runs[2]) => pairSorted = pair.names
       /\ int(pair.runs[2]) < int(pair.runs[1])
            => pairSorted = << pair.names[2], pair.names[1] >>

\* C4 witness: p10.png before P9.PNG in the input; as text "10" precedes "9"
\* and "P" precedes "p", yet the sorted order is P9.PNG, p10.png
C4_Witness ==
  /\ pc = "sorted"
  /\ pair.names = << << "p", "1", "0", ".", "p", "n", "g" >>,
                     << "P", "9", ".", "P", "N", "G" >> >>
  /\ pairSorted = << pair.names[2], pair.names[1] >>

\* C5: a run that is not interrupted and whose source directory exists calls
\* cbz_to_pdf for every archive of the sorted list, in order, whatever the
\* outcome of each archive.
C5_FailureDoesNotStopRun ==
  (pc = "done" /\ dirExists /\ ~interrupted)
    => started = cbz_files

C7_HeldAtMostOneBatch ==
  InCbzToPdf => Cardinality(held) <= BATCH_SIZE

\* C8: when cbz_to_pdf is about to return, every decoded image it collected
\* has been closed, after a successful save and after a failed one, and no
\* decoded image is held when main takes the next archive.
C8_PagesClosedOnReturn ==
  /\ pc = "ret" => collected \subseteq closed /\ held = { }
  /\ pc \in { "loop", "open" } => held = { } /\ collected = { }

\* C8 witness: the save of a two-page document raised, and both pages are closed
C8_Witness ==
  /\ pc = "ret"
  /\ saveAttempted
  /\ outcome[cbz] = "error"
  /\ Cardinality(collected) = 2
  /\ collected \subseteq closed

\* C9: no failed operation is attempted again: decoding an entry raises at
\* most once, and a document is written at most once.
C9_NoErrorRetried ==
  /\ \A n \in EntryNames : failures[n] <= 1
  /\ \A d \in Stems : docs[d].writes <= 1

\* C10: the batch loop visits the sorted list front to back; when it ends it
\* has visited every entry once, in ceil(N / B) batches, each of B entries
\* except possibly the last, and the collected pages are the decodable
\* entries of the sorted list, as without batching.
C10_BatchesCoverSortedList ==
  /\ (InCbzToPdf /\ opened) => visited = SubSeq(images, 1, Len(visited))
  /\ pc = "save"
       => /\ visited = images
          /\ Len(batchLens) = (Len(images) + BATCH_SIZE - 1) \div BATCH_SIZE
          /\ \A k \in 1..(Len(batchLens) - 1) : batchLens[k] = BATCH_SIZE
          /\ batchLens[Len(batchLens)] \in 1..BATCH_SIZE
          /\ all_pages = Decodable(images)

\* C10 witness: three entries with a batch size of two make two batches, of
\* two entries and of one
C10_Witness ==
  /\ pc = "save"
  /\ Len(images) = 3
  /\ BATCH_SIZE = 2
  /\ batchLens = << 2, 1 >>
  /\ Len(all_pages) >= 2

====
